---- MODULE Spec2Model ----
(***************************************************************************)
(* A model of andrepxx/audio-tools: the sample codec (class Audio of       *)
(* signal-gen.py and sr-to-ir.py), the linear congruential generator and   *)
(* the playback loop of signal-gen.py, and the derivation pipeline of      *)
(* sr-to-ir.py (derive, band-limiting, peak rescale, output conversion).   *)
(*                                                                         *)
(* Python integers are unbounded and the floats are IEEE-754 doubles,      *)
(* while the model checker's integers are 32 bits wide.  Values that do    *)
(* not fit are therefore carried as natural numbers in base 2^15           *)
(* (sequences of limbs, least significant first), with exact arithmetic.   *)
(* An intermediate result is bound as the element of a singleton set       *)
(* (v \in {e}) where it has to be evaluated before it is used.             *)
(***************************************************************************)
EXTENDS Integers, Sequences, FiniteSets, TLC

(***************************************************************************)
(* Exact natural-number arithmetic on limb sequences.                      *)
(***************************************************************************)
Base == 2^15

Abs(x) == IF x < 0 THEN -x ELSE x

Sign(x) == IF x < 0 THEN -1 ELSE IF x > 0 THEN 1 ELSE 0

RECURSIVE Pow2(_)
Pow2(k) == IF k = 0 THEN 1 ELSE 2 * Pow2(k - 1)

RECURSIVE BigNorm(_)
BigNorm(a) ==
    IF a = <<>> THEN <<>>
    ELSE IF a[Len(a)] = 0 THEN BigNorm(SubSeq(a, 1, Len(a) - 1))
    ELSE a

RECURSIVE BigFromNat(_)
BigFromNat(n) == IF n = 0 THEN <<>> ELSE <<n % Base>> \o BigFromNat(n \div Base)

\* The value of a limb sequence that fits 31 bits.
RECURSIVE BigToNat(_)
BigToNat(a) == IF a = <<>> THEN 0 ELSE a[1] + Base * BigToNat(Tail(a))

Limb(a, i) == IF i <= Len(a) THEN a[i] ELSE 0

\* -1, 0, 1 as a < b, a = b, a > b (both normalised).
RECURSIVE BigCmpFrom(_, _, _)
BigCmpFrom(a, b, i) ==
    IF i = 0 THEN 0
    ELSE IF a[i] < b[i] THEN -1
    ELSE IF a[i] > b[i] THEN 1
    ELSE BigCmpFrom(a, b, i - 1)

BigCmp(a, b) ==
    IF Len(a) < Len(b) THEN -1
    ELSE IF Len(a) > Len(b) THEN 1
    ELSE BigCmpFrom(a, b, Len(a))

RECURSIVE BigAddFrom(_, _, _, _)
BigAddFrom(a, b, i, carry) ==
    IF i > Len(a) /\ i > Len(b)
    THEN (IF carry = 0 THEN <<>> ELSE <<carry>>)
    ELSE LET t == Limb(a, i) + Limb(b, i) + carry
         IN  <<t % Base>> \o BigAddFrom(a, b, i + 1, t \div Base)

BigAdd(a, b) == BigAddFrom(a, b, 1, 0)

\* a - b for a >= b.
RECURSIVE BigSubFrom(_, _, _, _)
BigSubFrom(a, b, i, borrow) ==
    IF i > Len(a) THEN <<>>
    ELSE LET t == a[i] - Limb(b, i) - borrow
         IN  IF t < 0
             THEN <<t + Base>> \o BigSubFrom(a, b, i + 1, 1)
             ELSE <<t>> \o BigSubFrom(a, b, i + 1, 0)

BigSub(a, b) == BigNorm(BigSubFrom(a, b, 1, 0))

\* a * k for 0 <= k < 2^16.
RECURSIVE BigMulSmallFrom(_, _, _, _)
BigMulSmallFrom(a, k, i, carry) ==
    IF i > Len(a) THEN BigFromNat(carry)
    ELSE LET t == a[i] * k + carry
         IN  <<t % Base>> \o BigMulSmallFrom(a, k, i + 1, t \div Base)

BigMulSmall(a, k) == BigNorm(BigMulSmallFrom(a, k, 1, 0))

Zeros(n) == [i \in 1..n |-> 0]

BigShiftLimbs(a, n) == IF a = <<>> THEN <<>> ELSE Zeros(n) \o a

RECURSIVE BigMulFrom(_, _, _)
BigMulFrom(a, b, j) ==
    IF j > Len(b) THEN <<>>
    ELSE BigAdd(BigShiftLimbs(BigMulSmall(a, b[j]), j - 1), BigMulFrom(a, b, j + 1))

BigMul(a, b) == BigNorm(BigMulFrom(a, b, 1))

\* a * 2^k.
BigShiftLeft(a, k) == BigShiftLimbs(BigMulSmall(a, Pow2(k % 15)), k \div 15)

RECURSIVE BitLenNat(_)
BitLenNat(n) == IF n = 0 THEN 0 ELSE 1 + BitLenNat(n \div 2)

BigBitLen(a) == IF a = <<>> THEN 0 ELSE 15 * (Len(a) - 1) + BitLenNat(a[Len(a)])

\* Bit i (from 0) of a.
BigBit(a, i) == (Limb(a, (i \div 15) + 1) \div Pow2(i % 15)) % 2

\* floor(a / 2^k).
RECURSIVE BigShiftRightFrom(_, _, _)
BigShiftRightFrom(a, k, i) ==
    IF i > Len(a) THEN <<>>
    ELSE <<(a[i] \div Pow2(k)) + (Limb(a, i + 1) % Pow2(k)) * Pow2(15 - k)>>
         \o BigShiftRightFrom(a, k, i + 1)

BigShiftRight(a, k) ==
    IF k \div 15 >= Len(a) THEN <<>>
    ELSE BigNorm(BigShiftRightFrom(SubSeq(a, (k \div 15) + 1, Len(a)), k % 15, 1))

\* Whether a has a set bit below bit k.
BigLowBitsSet(a, k) == BigCmp(BigShiftLeft(BigShiftRight(a, k), k), a) # 0

\* One step of long division in base 2^15, for a divisor q whose top limb is
\* at least 2^14 and a remainder r < q * 2^15: the quotient digit is
\* estimated from the two leading limbs of r and the leading limb of q (the
\* estimate is never above the digit and at most 3 below), then corrected.
RECURSIVE BigDivCorrect(_, _, _)
BigDivCorrect(r, q, d) ==
    IF BigCmp(r, q) >= 0 THEN BigDivCorrect(BigSub(r, q), q, d + 1)
    ELSE [digit |-> d, rem |-> r]

BigDivDigit(r, q) ==
    LET n == Len(q)
        t == Limb(r, n + 1) * Base + Limb(r, n)
        d == t \div (q[n] + 1)
    IN  BigDivCorrect(BigSub(r, BigMulSmall(q, d)), q, d)

\* Long division of p by q from limb i of p downwards.  (The step is bound as
\* an element of a singleton set so that it is evaluated before the next one.)
RECURSIVE BigDivLimbs(_, _, _, _)
BigDivLimbs(p, q, i, st) ==
    IF i = 0 THEN st
    ELSE CHOOSE res \in
           { BigDivLimbs(p, q, i - 1,
                         [quo |-> <<step.digit>> \o st.quo, rem |-> step.rem]) :
             step \in {BigDivDigit(BigNorm(<<p[i]>> \o st.rem), q)} } : TRUE

\* Quotient of p by q > 0, and whether the division is exact.
BigDivMod(p, q) ==
    LET sh == 15 - BitLenNat(q[Len(q)])
        pn == BigMulSmall(p, Pow2(sh))
        qn == BigMulSmall(q, Pow2(sh))
        st == BigDivLimbs(pn, qn, Len(pn), [quo |-> <<>>, rem |-> <<>>])
    IN  [quo |-> BigNorm(st.quo), exact |-> st.rem = <<>>]

(***************************************************************************)
(* IEEE-754 binary64 arithmetic, as the Python floats of the programs      *)
(* compute it: a finite double is [s, m, e] with value s * m * 2^e, where  *)
(* s is the sign (-1, 0, 1), and m is a 53-bit natural (2^52 <= m < 2^53)  *)
(* unless the value is zero (m = <<>>).  Every operation rounds the exact  *)
(* result to the nearest double, ties to even.  The magnitudes the         *)
(* programs compute stay far inside the normal range (no overflow, no      *)
(* subnormals).                                                            *)
(***************************************************************************)
DblZero == [s |-> 0, m |-> <<>>, e |-> 0]

\* The non-finite doubles: an empty mantissa with e = 1.
DblInf(sign) == [s |-> sign, m |-> <<>>, e |-> 1]

DblNaN == [s |-> 0, m |-> <<>>, e |-> 1]

IsNaN(x) == x = DblNaN

IsInf(x) == x.m = <<>> /\ x.e = 1 /\ x.s # 0

IsFinite(x) == ~(x.m = <<>> /\ x.e = 1)

\* The double nearest to p / q, for naturals p > 0 and q > 0.
RoundRat(p, q) ==
    LET sh    == 54 - (BigBitLen(p) - BigBitLen(q))
        p1    == IF sh > 0 THEN BigShiftLeft(p, sh) ELSE p
        q1    == IF sh < 0 THEN BigShiftLeft(q, -sh) ELSE q
        dm    == BigDivMod(p1, q1)
        extra == BigBitLen(dm.quo) - 53
        m0    == BigShiftRight(dm.quo, extra)
        half  == BigBit(dm.quo, extra - 1) = 1
        stick == ~dm.exact \/ (extra = 2 /\ BigBit(dm.quo, 0) = 1)
        m1    == IF half /\ (stick \/ BigBit(m0, 0) = 1) THEN BigAdd(m0, <<1>>) ELSE m0
    IN  IF BigBitLen(m1) = 54
        THEN [s |-> 1, m |-> BigShiftRight(m1, 1), e |-> extra - sh + 1]
        ELSE [s |-> 1, m |-> m1, e |-> extra - sh]

\* The double nearest to the natural p > 0.
RoundNat(p) ==
    LET extra == BigBitLen(p) - 53
    IN  IF extra <= 0
        THEN [s |-> 1, m |-> BigShiftLeft(p, -extra), e |-> extra]
        ELSE LET m0    == BigShiftRight(p, extra)
                 half  == BigBit(p, extra - 1) = 1
                 stick == BigLowBitsSet(p, extra - 1)
                 m1    == IF half /\ (stick \/ BigBit(m0, 0) = 1)
                          THEN BigAdd(m0, <<1>>) ELSE m0
             IN  IF BigBitLen(m1) = 54
                 THEN [s |-> 1, m |-> BigShiftRight(m1, 1), e |-> extra + 1]
                 ELSE [s |-> 1, m |-> m1, e |-> extra]

\* An integer of at most 31 bits as a double (exact).
DblFromInt(n) ==
    IF n = 0 THEN DblZero
    ELSE LET r == RoundNat(BigFromNat(Abs(n))) IN [r EXCEPT !.s = Sign(n)]

\* x * y, rounded (0 * inf and NaN * y are NaN).
DblMul(x, y) ==
    IF IsNaN(x) \/ IsNaN(y) THEN DblNaN
    ELSE IF IsInf(x) \/ IsInf(y)
    THEN (IF x.s = 0 \/ y.s = 0 THEN DblNaN ELSE DblInf(x.s * y.s))
    ELSE IF x.s = 0 \/ y.s = 0 THEN DblZero
    ELSE LET r == RoundNat(BigMul(x.m, y.m))
         IN  [s |-> x.s * y.s, m |-> r.m, e |-> r.e + x.e + y.e]

\* x / y for finite x and y, rounded; numpy's float64 division gives inf for
\* x / 0 with x # 0 and NaN for 0 / 0 (with a warning, no exception).
DblDiv(x, y) ==
    IF y.s = 0 THEN (IF x.s = 0 THEN DblNaN ELSE DblInf(x.s))
    ELSE IF x.s = 0 THEN DblZero
    ELSE LET r == RoundRat(x.m, y.m)
         IN  [s |-> x.s * y.s, m |-> r.m, e |-> r.e + x.e - y.e]

DblNeg(x) == [x EXCEPT !.s = -x.s]

\* x + y for finite x and y, rounded: both are brought to the smaller
\* exponent and added exactly.
DblAdd(x, y) ==
    IF x.s = 0 THEN y
    ELSE IF y.s = 0 THEN x
    ELSE LET e0 == IF x.e < y.e THEN x.e ELSE y.e
             xm == BigShiftLeft(x.m, x.e - e0)
             ym == BigShiftLeft(y.m, y.e - e0)
             c  == BigCmp(xm, ym)
         IN  IF x.s = y.s
             THEN LET r == RoundNat(BigAdd(xm, ym))
                  IN  [s |-> x.s, m |-> r.m, e |-> r.e + e0]
             ELSE IF c = 0 THEN DblZero
             ELSE LET r == RoundNat(IF c > 0 THEN BigSub(xm, ym) ELSE BigSub(ym, xm))
                  IN  [s |-> IF c > 0 THEN x.s ELSE y.s, m |-> r.m, e |-> r.e + e0]

DblSub(x, y) == DblAdd(x, DblNeg(y))

DblAbs(x) == [x EXCEPT !.s = Abs(x.s)]

\* x < y for finite doubles x, y >= 0.
DblLessNonNeg(x, y) ==
    IF y.s = 0 THEN FALSE
    ELSE IF x.s = 0 THEN TRUE
    ELSE IF x.e # y.e THEN x.e < y.e
    ELSE BigCmp(x.m, y.m) < 0

\* x < y for doubles that are not NaN.
DblLess(x, y) ==
    IF IsInf(x) THEN x.s < 0 /\ ~(IsInf(y) /\ y.s < 0)
    ELSE IF IsInf(y) THEN y.s > 0
    ELSE IF x.s < 0 /\ y.s < 0 THEN DblLessNonNeg(DblAbs(y), DblAbs(x))
    ELSE IF x.s < 0 THEN TRUE
    ELSE IF y.s < 0 THEN FALSE
    ELSE DblLessNonNeg(x, y)

\* The integer part of a finite double of magnitude below 2^31, toward zero.
DblTrunc(x) ==
    IF x.s = 0 THEN 0
    ELSE IF x.e >= 0 THEN x.s * BigToNat(BigShiftLeft(x.m, x.e))
    ELSE x.s * BigToNat(BigShiftRight(x.m, -x.e))

DblOne == DblFromInt(1)

(***************************************************************************)
(* The state: one record per component.                                    *)
(*   codec  an Audio object and the arguments and results of its methods   *)
(*   lcg    an LCG object and the result of its last call                  *)
(*   gen    the playback loop of signal-gen.py                             *)
(*   conv   the converter of sr-to-ir.py on a recording's samples          *)
(*   band   the post-processing stage of sr-to-ir.py on array lengths      *)
(***************************************************************************)
VARIABLES codec, lcg, gen, conv, band

vars == <<codec, lcg, gen, conv, band>>

Idle == [pc |-> "idle"]

SeqsUpTo(S, n) == UNION {[1..k -> S] : k \in 0..n}

(***************************************************************************)
(* The sample codec: class Audio.                                          *)
(***************************************************************************)
MaxLen == 2

\* The full scale each program pairs with a sample width: 0x7fff with
\* low_res (sr-to-ir.py), 0x7fffffff without (signal-gen.py).
FullScale(low_res) == IF low_res THEN 32767 ELSE 2147483647

\* self.__stride // 2 or self.__stride, with self.__stride = 4.
Stride(low_res) == IF low_res THEN 4 \div 2 ELSE 4

Ok(v) == [ok |-> TRUE, val |-> v]

\* A call that raised struct.error.
StructError == [ok |-> FALSE, val |-> <<>>]

\* struct.pack("<h", v): two bytes, least significant first (two's complement).
PackLE16(v) == <<v % 256, (v \div 256) % 256>>

\* struct.pack(">i", v): four bytes, most significant first.
PackBE32(v) ==
    <<(v \div 16777216) % 256, (v \div 65536) % 256, (v \div 256) % 256, v % 256>>

\* struct.pack raises struct.error for a number outside the format's range.
PackInRange(v, low_res) ==
    IF low_res THEN -32768 <= v /\ v <= 32767
    ELSE -2147483647 - 1 <= v /\ v <= 2147483647

RECURSIVE Concat(_)
Concat(ss) == IF ss = <<>> THEN <<>> ELSE Head(ss) \o Concat(Tail(ss))

\* A plausible slip: the 16-bit samples packed most significant byte first.
serialize_swapped(a, low_res) ==
    IF \E i \in 1..Len(a) : ~PackInRange(a[i], low_res) THEN StructError
    ELSE Ok(Concat([i \in 1..Len(a) |->
                      IF low_res THEN <<(a[i] \div 256) % 256, a[i] % 256>>
                      ELSE PackBE32(a[i])]))

\* Audio.serialize.
serialize(a, low_res) ==
    IF \E i \in 1..Len(a) : ~PackInRange(a[i], low_res) THEN StructError
    ELSE Ok(Concat([i \in 1..Len(a) |->
                      IF low_res THEN PackLE16(a[i]) ELSE PackBE32(a[i])]))

Signed8(b) == IF b >= 128 THEN b - 256 ELSE b

UnpackLE16(s, k) == Signed8(s[k + 1]) * 256 + s[k]

UnpackBE32(s, k) == Signed8(s[k]) * 16777216 + s[k + 1] * 65536 + s[k + 2] * 256 + s[k + 3]

\* struct.unpack(fmt, s) for a format of count samples: s must hold exactly
\* the bytes the format asks for, or struct.error is raised.
unpack(count, s, low_res) ==
    IF Len(s) # count * Stride(low_res) THEN StructError
    ELSE Ok([i \in 1..count |->
               IF low_res THEN UnpackLE16(s, 2 * (i - 1) + 1)
               ELSE UnpackBE32(s, 4 * (i - 1) + 1)])

\* A decoder that drops a trailing partial sample instead of raising.
deserialize_lenient(s, low_res) ==
    LET count == Len(s) \div Stride(low_res)
    IN  unpack(count, SubSeq(s, 1, count * Stride(low_res)), low_res)

\* Audio.deserialize.
deserialize(s, low_res) == unpack(Len(s) \div Stride(low_res), s, low_res)

\* Audio.normalize.
normalize(data, max_val) ==
    CHOOSE r \in { [i \in 1..Len(data) |-> DblMul(fac, DblFromInt(data[i]))] :
                   fac \in {DblDiv(DblOne, DblFromInt(max_val))} } : TRUE

\* np.clip(x, -1.0, 1.0) on one element (NaN stays NaN).
Clip(x) ==
    IF IsNaN(x) THEN x
    ELSE IF DblLess(x, DblFromInt(-1)) THEN DblFromInt(-1)
    ELSE IF DblLess(DblOne, x) THEN DblOne
    ELSE x

\* A denormalize without the clamp.
denormalize_noclip(data, max_val) ==
    CHOOSE r \in { [i \in 1..Len(data) |-> DblTrunc(DblMul(fac, data[i]))] :
                   fac \in {DblFromInt(max_val)} } : TRUE

\* Audio.denormalize on data without NaN: astype(np.int64) drops the
\* fraction.  (The conversion of a NaN is undefined; see Convert.)
denormalize(data, max_val) ==
    CHOOSE r \in { [i \in 1..Len(data) |-> DblTrunc(DblMul(fac, Clip(data[i])))] :
                   fac \in {DblFromInt(max_val)} } : TRUE

\* Sample values at the ends and in the middle of each width's range.
SampleValues(low_res) ==
    IF low_res THEN {-32767, -256, -255, -1, 0, 1, 127, 128, 255, 256, 32767}
    ELSE {-2147483647, -16777216, -65536, -256, -1, 0, 1, 128, 255, 256,
          65536, 16777215, 2147483647}

\* Floats handed to denormalize: inside, at and beyond the unit range.
FloatInputs ==
    {DblDiv(DblFromInt(p), DblFromInt(q)) : p \in -5..5, q \in {1, 2, 3, 4, 7}}
    \cup {DblInf(1), DblInf(-1)}

CodecInit ==
    /\ codec \in { [pc |-> "new", low_res |-> lr, a |-> a, s |-> <<>>, arg |-> <<>>,
                    pbuf |-> Ok(<<>>), fin |-> <<>>, idata |-> <<>>] :
                   lr \in BOOLEAN, a \in SeqsUpTo(SampleValues(TRUE) \cup SampleValues(FALSE), MaxLen) }
    /\ \A i \in 1..Len(codec.a) : codec.a[i] \in SampleValues(codec.low_res)
    /\ lcg = Idle /\ gen = Idle /\ conv = Idle /\ band = Idle

\* audio.serialize(a) on legal samples.
CSerialize ==
    /\ codec.pc = "new"
    /\ codec' = [codec EXCEPT !.pc = "serialized",
                              !.s = serialize(codec.a, codec.low_res).val]
    /\ UNCHANGED <<lcg, gen, conv, band>>

\* audio.deserialize on the first k bytes of the encoded block.
CDeserialize(k) ==
    /\ codec.pc = "serialized"
    /\ codec' = [codec EXCEPT !.pc = "deserialized",
                              !.arg = SubSeq(codec.s, 1, k),
                              !.pbuf = deserialize(SubSeq(codec.s, 1, k), codec.low_res)]
    /\ UNCHANGED <<lcg, gen, conv, band>>

\* audio.normalize on the decoded samples.
CNormalize ==
    /\ codec.pc = "deserialized"
    /\ codec.pbuf.ok
    /\ codec' = [codec EXCEPT !.pc = "normalized",
                              !.fin = normalize(codec.pbuf.val, FullScale(codec.low_res))]
    /\ UNCHANGED <<lcg, gen, conv, band>>

\* audio.denormalize on the normalized samples, or on one given float.
CDenormalize(x) ==
    /\ codec.pc \in {"new", "normalized"}
    /\ codec' = [codec EXCEPT !.pc = "denormalized",
                              !.fin = x,
                              !.idata = denormalize(x, FullScale(codec.low_res))]
    /\ UNCHANGED <<lcg, gen, conv, band>>

CodecNext ==
    \/ CSerialize
    \/ \E k \in 0..Len(codec.s) : CDeserialize(k)
    \/ CNormalize
    \/ codec.pc = "normalized" /\ CDenormalize(codec.fin)
    \/ codec.pc = "new" /\ codec.a = <<>> /\ \E f \in FloatInputs : CDenormalize(<<f>>)

SpecCodec == CodecInit /\ [][CodecNext]_vars

(***************************************************************************)
(* Claims about the codec.                                                 *)
(***************************************************************************)

\* C1: for both sample widths, decoding the bytes that serialize produced for
\* a sequence of samples within [-full_scale, full_scale] returns the same
\* samples in the same order.
C1_RoundTrip ==
    (codec.pc = "deserialized" /\ codec.arg = codec.s)
        => (codec.pbuf.ok /\ codec.pbuf.val = codec.a)

C1_Witness ==
    /\ codec.pc = "deserialized"
    /\ codec.arg = codec.s
    /\ Len(codec.a) = 2
    /\ codec.a[1] = -FullScale(codec.low_res)
    /\ codec.a[2] = 255
    /\ codec.pbuf.val = codec.a

\* C2 as claimed: a byte string whose length is not a multiple of the sample
\* width is decoded without error into the floor(len / width) complete
\* leading samples.
C2_SilentDrop ==
    (codec.pc = "deserialized" /\ Len(codec.arg) % Stride(codec.low_res) # 0)
        => /\ codec.pbuf.ok
           /\ codec.pbuf.val = SubSeq(codec.a, 1, Len(codec.arg) \div Stride(codec.low_res))

\* C2 as amended: deserialize returns len / width samples, those encoded in
\* the bytes, exactly when the length is a multiple of the sample width; for
\* any other length struct.unpack raises struct.error and nothing is returned.
C2_PartialInputRaises ==
    codec.pc = "deserialized" =>
        IF Len(codec.arg) % Stride(codec.low_res) = 0
        THEN /\ codec.pbuf.ok
             /\ codec.pbuf.val = SubSeq(codec.a, 1, Len(codec.arg) \div Stride(codec.low_res))
        ELSE /\ ~codec.pbuf.ok
             /\ codec.pbuf.val = <<>>

C2_Witness ==
    /\ codec.pc = "deserialized"
    /\ Len(codec.arg) > Stride(codec.low_res)
    /\ Len(codec.arg) % Stride(codec.low_res) # 0
    /\ ~codec.pbuf.ok

\* n + 1 as a double, for 0 <= n < 2^31.
SuccAsDbl(n) == RoundNat(BigAdd(BigFromNat(n), <<1>>))

\* r is the double p with its fraction dropped.
IsTruncationOf(r, p) ==
    /\ r # 0 => Sign(r) = p.s
    /\ ~DblLessNonNeg(DblAbs(p), DblFromInt(Abs(r)))
    /\ DblLessNonNeg(DblAbs(p), SuccAsDbl(Abs(r)))

\* round(f * fs) for a finite double f # 0 with |f| <= 1, on the exact
\* product, halves away from zero.
RoundOfProduct(f, fs) ==
    CHOOSE r \in { f.s * BigToNat(BigShiftRight(BigAdd(BigAdd(num, num),
                                                        BigShiftLeft(<<1>>, -f.e)),
                                                 1 - f.e)) :
                   num \in {BigMul(BigFromNat(fs), f.m)} } : TRUE

InUnitRange(f) == IsFinite(f) /\ ~DblLess(f, DblFromInt(-1)) /\ ~DblLess(DblOne, f)

scale == 64979

offset == 83

LcgA == 7^5

LcgB == 0

LcgC == 2^30 + (2^30 - 1)

\* p % q for naturals p and q > 0.
BigMod(p, q) == BigSub(p, BigMul(BigDivMod(p, q).quo, q))

\* LCG.__init__: the state for an integer seed.  (Python's % is never
\* negative for a positive modulus, like the % of TLA+.)
LCG(seed) ==
    IF seed < 0 THEN ((scale * seed) + offset) % LcgC
    ELSE BigToNat(BigMod(BigAdd(BigMulSmall(BigFromNat(seed), scale),
                                BigFromNat(offset)),
                         BigFromNat(LcgC)))

\* The transition with increment 1 instead of b.
next_increment(state) ==
    BigToNat(BigMod(BigAdd(BigMulSmall(BigFromNat(state), LcgA), <<1>>),
                    BigFromNat(LcgC)))

\* LCG.next: the new state, which is also the value returned.
next(state) ==
    BigToNat(BigMod(BigAdd(BigMulSmall(BigFromNat(state), LcgA), BigFromNat(LcgB)),
                    BigFromNat(LcgC)))

\* itertools.islice(self, n): the values of n calls of next.
RECURSIVE islice(_, _)
islice(state, n) ==
    IF n = 0 THEN <<>>
    ELSE CHOOSE r \in { <<s1>> \o islice(s1, n - 1) : s1 \in {next(state)} } : TRUE

\* A draw that returns the states before each advance.
draw_uniform_lagging(state, n) ==
    LET xs == <<state>> \o islice(state, n)
    IN  [state |-> xs[n + 1],
         out   |-> [i \in 1..n |-> DblDiv(DblFromInt(xs[i]), DblFromInt(LcgC))]]

\* LCG.draw_uniform: the object's new state and the array returned (true
\* division of an integer array by c, element by element).
draw_uniform(state, n) ==
    LET xs == islice(state, n)
    IN  [state |-> IF n = 0 THEN state ELSE xs[n],
         out   |-> [i \in 1..n |-> DblDiv(DblFromInt(xs[i]), DblFromInt(LcgC))]]

MaxDrawN == 3

MaxDraws == 3

\* The seeds: the program's 1337, small ones, the seed whose initial state is
\* 0 (1434685246) and the seed whose initial state is c - 1 (598151811).
Seeds == {-1, 0, 1, 1337, 1434685246, 598151811}

LcgInit ==
    /\ lcg \in { [pc |-> "ready", seed |-> sd, state |-> LCG(sd), before |-> LCG(sd),
                  n |-> -1, out |-> <<>>, draws |-> 0] : sd \in Seeds }
    /\ codec = Idle /\ gen = Idle /\ conv = Idle /\ band = Idle

\* lcg.draw_uniform(n)
LDraw(n) ==
    /\ lcg.pc = "ready"
    /\ lcg.draws < MaxDraws
    /\ \E r \in {draw_uniform(lcg.state, n)} :
         lcg' = [lcg EXCEPT !.state = r.state, !.before = lcg.state, !.n = n,
                            !.out = r.out, !.draws = lcg.draws + 1]
    /\ UNCHANGED <<codec, gen, conv, band>>

LcgNext == \E n \in 0..MaxDrawN : LDraw(n)

SpecLCG == LcgInit /\ [][LcgNext]_vars

\* The noise segment of signal-gen.py, drawn value by value:
\*   lcg = LCG(seed); noise = lcg.draw_uniform(n = rate)
rate == 96000

NoiseSeeds == {1337, 1434685246, 598151811}

NoiseInit ==
    /\ lcg \in { [pc |-> "noise", seed |-> sd, init |-> LCG(sd), state |-> LCG(sd),
                  i |-> 0, sample |-> DblZero] : sd \in NoiseSeeds }
    /\ codec = Idle /\ gen = Idle /\ conv = Idle /\ band = Idle

\* One value of the islice: next() and the division by c.
NoiseStep ==
    /\ lcg.pc = "noise"
    /\ lcg.i < rate
    /\ \E s1 \in {next(lcg.state)} :
         lcg' = [lcg EXCEPT !.state = s1, !.i = lcg.i + 1,
                            !.sample = DblDiv(DblFromInt(s1), DblFromInt(LcgC))]
    /\ UNCHANGED <<codec, gen, conv, band>>

NoiseNext == NoiseStep

SpecNoise == NoiseInit /\ [][NoiseNext]_vars

(***************************************************************************)
(* The playback loop of signal-gen.py.  The waveform has 960000 samples,   *)
(* so arrays are kept as runs: a run is a number of consecutive samples of *)
(* one segment, and a slice of the waveform is a sequence of runs.         *)
(***************************************************************************)
\* A chunk size that does not divide the waveform's length.
num_uneven == rate \div 49

\* line 130: the chunk size.
num == rate \div 50

\* line 138: the segments of ndata, each of rate samples.
ndata ==
    [i \in 1..10 |->
       [kind |-> <<"silence", "noise", "silence", "plusone", "silence",
                   "minusone", "silence", "plusone", "minusone", "silence">>[i],
        n |-> rate]]

RECURSIVE RunsLen(_)
RunsLen(runs) == IF runs = <<>> THEN 0 ELSE runs[1].n + RunsLen(Tail(runs))

\* The value of every sample of a constant segment (np.zeros, np.ones,
\* -np.ones).
SegValue(kind) ==
    IF kind = "silence" THEN DblZero
    ELSE IF kind = "plusone" THEN DblOne ELSE DblNeg(DblOne)

\* The samples [off, off + len) of an array of runs: for each run touched,
\* its kind, the index of the first sample taken from it and their number.
RECURSIVE SliceRuns(_, _, _, _)
SliceRuns(runs, i, off, len) ==
    IF len = 0 \/ i > Len(runs) THEN <<>>
    ELSE IF off >= runs[i].n THEN SliceRuns(runs, i + 1, off - runs[i].n, len)
    ELSE LET c == IF len < runs[i].n - off THEN len ELSE runs[i].n - off
         IN  <<[kind |-> runs[i].kind, first |-> off, count |-> c]>>
             \o SliceRuns(runs, i + 1, 0, len - c)

\* audio.serialize(audio.denormalize(<<v>>, 0x7fffffff)): the 4 bytes of one
\* sample of each constant segment.
SilenceBytes == serialize(denormalize(<<SegValue("silence")>>, FullScale(FALSE)), FALSE).val

PlusOneBytes == serialize(denormalize(<<SegValue("plusone")>>, FullScale(FALSE)), FALSE).val

MinusOneBytes == serialize(denormalize(<<SegValue("minusone")>>, FullScale(FALSE)), FALSE).val

SegBytes(kind) ==
    IF kind = "silence" THEN SilenceBytes
    ELSE IF kind = "plusone" THEN PlusOneBytes ELSE MinusOneBytes

\* audio.serialize(audio.denormalize(ldata, 0x7fffffff)) on a slice: each
\* run of a constant segment becomes count copies of the 4 bytes of its
\* value; a run of the noise segment stays a reference to the noise samples
\* first .. first + count - 1.
EncodeRuns(piece) ==
    [i \in 1..Len(piece) |->
       IF piece[i].kind = "noise"
       THEN [kind |-> "noise", first |-> piece[i].first, count |-> piece[i].count,
             bytes |-> <<>>]
       ELSE [kind |-> piece[i].kind, first |-> 0, count |-> piece[i].count,
             bytes |-> SegBytes(piece[i].kind)]]

\* lines 128-145: the state before the loop.  rdata is a view [off, len) of
\* a copy of ndata; data is the block about to be written, block the block
\* last written, played the number of samples written so far, modulo the
\* length of the waveform.
GenInit ==
    /\ gen = [pc |-> "outer", rdata |-> [off |-> 0, len |-> 0], data |-> <<>>,
              block |-> <<>>, played |-> 0]
    /\ codec = Idle /\ lcg = Idle /\ conv = Idle /\ band = Idle

\* line 149: rdata = np.copy(ndata)
GCopy ==
    /\ gen.pc = "outer"
    /\ gen' = [gen EXCEPT !.pc = "inner", !.rdata = [off |-> 0, len |-> RunsLen(ndata)]]
    /\ UNCHANGED <<codec, lcg, conv, band>>

\* lines 152-155: the loop test succeeds, the chunk is sliced and encoded.
GSlice ==
    /\ gen.pc = "inner"
    /\ gen.rdata.len > 0
    /\ LET taken == IF num < gen.rdata.len THEN num ELSE gen.rdata.len
       IN  gen' = [gen EXCEPT
                     !.pc = "write",
                     !.rdata = [off |-> gen.rdata.off + taken,
                                len |-> gen.rdata.len - taken],
                     !.data = EncodeRuns(SliceRuns(ndata, 1, gen.rdata.off, taken))]
    /\ UNCHANGED <<codec, lcg, conv, band>>

\* line 152: the loop test fails, back to the outer loop.
GLoopEnd ==
    /\ gen.pc = "inner"
    /\ gen.rdata.len = 0
    /\ gen' = [gen EXCEPT !.pc = "outer"]
    /\ UNCHANGED <<codec, lcg, conv, band>>

RECURSIVE BlockCount(_)
BlockCount(b) == IF b = <<>> THEN 0 ELSE b[1].count + BlockCount(Tail(b))

\* line 156: outp.write(data) accepts the block.
GWrite ==
    /\ gen.pc = "write"
    /\ gen' = [gen EXCEPT !.pc = "inner", !.block = gen.data,
                          !.played = (gen.played + BlockCount(gen.data)) % RunsLen(ndata)]
    /\ UNCHANGED <<codec, lcg, conv, band>>

\* line 156: outp.write(data) raises, which ends the program.
GWriteFail ==
    /\ gen.pc = "write"
    /\ gen' = [gen EXCEPT !.pc = "failed"]
    /\ UNCHANGED <<codec, lcg, conv, band>>

GenNext == GCopy \/ GSlice \/ GLoopEnd \/ GWrite \/ GWriteFail

\* The loop has no blocking step other than the write, which returns or
\* raises: the program always takes its next step.
SpecGenFair == GenInit /\ [][GenNext]_vars /\ WF_vars(GenNext)

(***************************************************************************)
(* sr-to-ir.py: derive.                                                    *)
(***************************************************************************)

\* A derivative with one-sided differences at both ends.
derive_onesided(ir) ==
    LET n == Len(ir)
    IN  IF n < 2 THEN [i \in 1..n |-> DblZero]
        ELSE [i \in 1..n |->
                IF i = 1 THEN DblSub(ir[2], ir[1])
                ELSE IF i = n THEN DblSub(ir[n], ir[n - 1])
                ELSE DblSub(ir[i + 1], ir[i - 1])]

\* derive(ir): 0.0, then ir[i + 1] - ir[i - 1] for i in range(1, n - 1), then
\* 0.0 (Python indexes from 0, the sequences here from 1).
derive(ir) ==
    LET n == Len(ir)
    IN  <<DblZero>> \o [i \in 1..(n - 2) |-> DblSub(ir[i + 2], ir[i])] \o <<DblZero>>

MaxIrLen == 5

\* Sample values for derive: 0.0 .. 4.0 and 1/3.
IrValues == {DblFromInt(k) : k \in 0..4} \cup {DblDiv(DblOne, DblFromInt(3))}

DeriveInit ==
    /\ conv \in { [pc |-> "ir", ir |-> ir, der |-> <<>>] : ir \in SeqsUpTo(IrValues, MaxIrLen) }
    /\ codec = Idle /\ lcg = Idle /\ gen = Idle /\ band = Idle

\* der = derive(ir)
Derive ==
    /\ conv.pc = "ir"
    /\ conv' = [conv EXCEPT !.pc = "der", !.der = derive(conv.ir)]
    /\ UNCHANGED <<codec, lcg, gen, band>>

DeriveNext == Derive

SpecDerive == DeriveInit /\ [][DeriveNext]_vars

(***************************************************************************)
(* sr-to-ir.py: the converter on a mono 16-bit recording.                  *)
(***************************************************************************)
MaxRecLen == 3

\* Samples of the input recording.
RecValues == {-32768, -1, 0, 1, 32767}

\* in_wav.readframes(8192) until it returns nothing: the chunks of at most
\* 8192 frames of 2 bytes, and the empty chunk that ends the loop, which
\* line 142 appends as well.
RECURSIVE readframes(_)
readframes(frames) ==
    IF Len(frames) = 0 THEN <<frames>>
    ELSE IF Len(frames) <= 8192 * 2 THEN <<frames, <<>> >>
    ELSE <<SubSeq(frames, 1, 8192 * 2)>>
         \o readframes(SubSeq(frames, 8192 * 2 + 1, Len(frames)))

\* lines 146-149: every chunk deserialized, normalized and appended.
RECURSIVE load(_)
load(data) ==
    IF data = <<>> THEN <<>>
    ELSE CHOOSE r \in { nbuf \o load(Tail(data)) :
                        nbuf \in {normalize(deserialize(Head(data), TRUE).val, 32767)} } : TRUE

\* np.max(np.absolute(ndata)) for a non-empty array without NaN.
RECURSIVE AbsMax(_, _)
AbsMax(sig, i) ==
    IF i = 1 THEN DblAbs(sig[1])
    ELSE CHOOSE r \in { IF DblLessNonNeg(m, DblAbs(sig[i])) THEN DblAbs(sig[i]) ELSE m :
                        m \in {AbsMax(sig, i - 1)} } : TRUE

\* A rescale that leaves an all-zero signal alone.
rescale_guarded(sig) ==
    CHOOSE r \in { IF peak.s = 0
                   THEN [peak |-> peak, scale |-> DblOne, ndata |-> sig]
                   ELSE CHOOSE q \in { [peak |-> peak, scale |-> scl,
                                        ndata |-> [i \in 1..Len(sig) |-> DblMul(sig[i], scl)]] :
                                       scl \in {DblDiv(DblOne, peak)} } : TRUE :
                   peak \in {AbsMax(sig, Len(sig))} } : TRUE

\* lines 185-188: peak, scale = 1.0 / peak and ndata *= scale.
rescale(sig) ==
    CHOOSE r \in { CHOOSE q \in { [peak |-> peak, scale |-> scl,
                                   ndata |-> [i \in 1..Len(sig) |-> DblMul(sig[i], scl)]] :
                                  scl \in {DblDiv(DblOne, peak)} } : TRUE :
                   peak \in {AbsMax(sig, Len(sig))} } : TRUE

\* What astype(np.int64) makes of a NaN is not defined: the builds in use
\* give the smallest int64 (x86-64) or 0 (aarch64).
NanCasts == {"int64_min", "zero"}

\* lines 193-195 on one chunk: denormalize and serialize.  The smallest
\* int64 is outside the range of "<h", so struct.pack raises.
convert_chunk(nbuf, cast) ==
    IF \E i \in 1..Len(nbuf) : IsNaN(nbuf[i])
    THEN IF cast = "int64_min" THEN StructError
         ELSE serialize([i \in 1..Len(nbuf) |->
                           IF IsNaN(nbuf[i]) THEN 0
                           ELSE denormalize(<<nbuf[i]>>, 32767)[1]], TRUE)
    ELSE serialize(denormalize(nbuf, 32767), TRUE)

\* lines 192-196: the chunks of at most 8192 samples, converted in turn; the
\* first struct.error ends the program.
RECURSIVE convert(_, _)
convert(sig, cast) ==
    IF sig = <<>> THEN Ok(<<>>)
    ELSE LET k == IF Len(sig) < 8192 THEN Len(sig) ELSE 8192
         IN  CHOOSE r \in
               { IF ~buf.ok THEN StructError
                 ELSE CHOOSE q \in { IF rest.ok THEN Ok(<<buf.val>> \o rest.val) ELSE StructError :
                                     rest \in {convert(SubSeq(sig, k + 1, Len(sig)), cast)} } : TRUE :
                 buf \in {convert_chunk(SubSeq(sig, 1, k), cast)} } : TRUE

\* lines 118-128: both files open, the optional third argument read.
ConvInit ==
    /\ conv \in { [pc |-> "open", post_process |-> pp, samples |-> a,
                   frames |-> serialize(a, TRUE).val, ndata |-> <<>>, data_length |-> 0,
                   n |-> 0, peak |-> DblZero, scale |-> DblZero, ub |-> FALSE,
                   data |-> <<>>, written |-> <<>>] :
                  pp \in BOOLEAN, a \in SeqsUpTo(RecValues, MaxRecLen) }
    /\ codec = Idle /\ lcg = Idle /\ gen = Idle /\ band = Idle

\* lines 131-149: read, deserialize, normalize.
CvLoad ==
    /\ conv.pc = "open"
    /\ conv' = [conv EXCEPT !.pc = "loaded", !.ndata = load(readframes(conv.frames))]
    /\ UNCHANGED <<codec, lcg, gen, band>>

\* lines 152-153: the derivative and its length.
CvDerive ==
    /\ conv.pc = "loaded"
    /\ \E der \in {derive(conv.ndata)} :
         conv' = [conv EXCEPT !.pc = "derived", !.ndata = der, !.data_length = Len(der)]
    /\ UNCHANGED <<codec, lcg, gen, band>>

\* lines 156-182 on a signal that is zero everywhere: the padded signal,
\* its transform, the masked transform and the inverse transform are all
\* zero, and the first data_length samples are kept.
CvPostProcessZero ==
    /\ conv.pc = "derived"
    /\ conv.post_process
    /\ \A i \in 1..Len(conv.ndata) : conv.ndata[i] = DblZero
    /\ LET padded == conv.ndata \o [i \in 1..Len(conv.ndata) |-> DblZero]
       IN  conv' = [conv EXCEPT !.pc = "processed", !.n = Len(padded),
                                !.ndata = SubSeq(padded, 1, conv.data_length)]
    /\ UNCHANGED <<codec, lcg, gen, band>>

\* lines 156-182 on any other signal: the values that the transforms give
\* are not computed here, only the lengths; the run is followed no further.
CvPostProcessOther ==
    /\ conv.pc = "derived"
    /\ conv.post_process
    /\ \E i \in 1..Len(conv.ndata) : conv.ndata[i] # DblZero
    /\ conv' = [conv EXCEPT !.pc = "bandlimited", !.n = 2 * Len(conv.ndata),
                            !.ndata = [i \in 1..conv.data_length |-> "filtered"]]
    /\ UNCHANGED <<codec, lcg, gen, band>>

\* lines 185-188: the rescale.
CvRescale ==
    /\ \/ conv.pc = "derived" /\ ~conv.post_process
       \/ conv.pc = "processed"
    /\ \E r \in {rescale(conv.ndata)} :
         conv' = [conv EXCEPT !.pc = "rescaled", !.peak = r.peak, !.scale = r.scale,
                              !.ndata = r.ndata]
    /\ UNCHANGED <<codec, lcg, gen, band>>

\* lines 189-196: the conversion to bytes.
CvConvert(cast) ==
    /\ conv.pc = "rescaled"
    /\ \E r \in {convert(conv.ndata, cast)} :
         conv' = [conv EXCEPT !.pc = IF r.ok THEN "converted" ELSE "crashed",
                              !.ub = \E i \in 1..Len(conv.ndata) : IsNaN(conv.ndata[i]),
                              !.data = r.val]
    /\ UNCHANGED <<codec, lcg, gen, band>>

\* lines 199-204: the output frames.
CvWrite ==
    /\ conv.pc = "converted"
    /\ conv' = [conv EXCEPT !.pc = "done", !.written = Concat(conv.data)]
    /\ UNCHANGED <<codec, lcg, gen, band>>

ConvNext ==
    \/ CvLoad
    \/ CvDerive
    \/ CvPostProcessZero
    \/ CvPostProcessOther
    \/ CvRescale
    \/ \E cast \in NanCasts : CvConvert(cast)
    \/ CvWrite

SpecConv == ConvInit /\ [][ConvNext]_vars

(***************************************************************************)
(* sr-to-ir.py: the band limit of the post-processing stage, on the        *)
(* frequencies of the bins (the values of the bins are not needed to tell  *)
(* which of them are cleared).                                             *)
(***************************************************************************)
MaxBandLen == 66

SampleRates == {44100, 48000}

\* np.fft.fftfreq(n, d): val = 1.0 / (n * d), and bin i holds the product of
\* the integer below with val.
fftfreq_index(n, i) == IF i < ((n - 1) \div 2) + 1 THEN i ELSE i - n

fftfreq_val(n, d) ==
    CHOOSE v \in { DblDiv(DblOne, x) : x \in {DblMul(DblFromInt(n), d)} } : TRUE

\* line 174: (freq < 20.0) | (freq > 20000.0)
inaudible(freq) == DblLess(freq, DblFromInt(20)) \/ DblLess(DblFromInt(20000), freq)

\* lines 159-167 for a derivative of data_length samples: the padded length
\* n, samplerate_inv and the frequencies (each is index * val).  i is the
\* next bin of the loop; bin, freq and cleared are about the bin before it.
BandInit ==
    /\ band \in { [pc |-> "mask", samplerate |-> sr, data_length |-> len, n |-> 2 * len,
                   samplerate_inv |-> DblDiv(DblOne, DblFromInt(sr)), val |-> DblZero,
                   i |-> -1, bin |-> -1, freq |-> DblZero, cleared |-> FALSE] :
                  sr \in SampleRates, len \in 2..MaxBandLen }
    /\ codec = Idle /\ lcg = Idle /\ gen = Idle /\ conv = Idle

\* line 167: freqs = np.fft.fftfreq(n, samplerate_inv)
BFreqs ==
    /\ band.pc = "mask"
    /\ band.i = -1
    /\ band' = [band EXCEPT !.val = fftfreq_val(band.n, band.samplerate_inv), !.i = 0]
    /\ UNCHANGED <<codec, lcg, gen, conv>>

\* lines 170-175: one turn of the loop.
BMask ==
    /\ band.pc = "mask"
    /\ band.i >= 0 /\ band.i < band.n
    /\ \E f \in {DblAbs(DblMul(DblFromInt(fftfreq_index(band.n, band.i)), band.val))} :
         band' = [band EXCEPT !.i = band.i + 1, !.bin = band.i, !.freq = f,
                              !.cleared = inaudible(f)]
    /\ UNCHANGED <<codec, lcg, gen, conv>>

\* lines 178-182: the loop is over.
BInverse ==
    /\ band.pc = "mask"
    /\ band.i = band.n
    /\ band' = [band EXCEPT !.pc = "inverse"]
    /\ UNCHANGED <<codec, lcg, gen, conv>>

BandNext == BFreqs \/ BMask \/ BInverse

SpecBand == BandInit /\ [][BandNext]_vars

(***************************************************************************)
(* Claims about the generator.                                             *)
(***************************************************************************)

\* The transition computed without wide products (Schrage's decomposition
\* c = 127773 * a + 2836).
SchrageNext(s) ==
    LET t == LcgA * (s % 127773) - 2836 * (s \div 127773)
    IN  IF t < 0 THEN t + LcgC ELSE t

RECURSIVE Advance(_, _)
Advance(s, k) == IF k = 0 THEN s ELSE Advance(SchrageNext(s), k - 1)

\* x is a double nearest to p / q (naturals p < q): zero for p = 0, and
\* otherwise a 53-bit mantissa with |m * 2^e - p / q| <= 2^e / 2.
NearestDouble(x, p, q) ==
    IF p = 0 THEN x = DblZero
    ELSE /\ x.s = 1 /\ x.e < 0 /\ BigBitLen(x.m) = 53
         /\ LET l == BigMulSmall(BigMul(x.m, BigFromNat(q)), 2)
                r == BigShiftLeft(BigFromNat(p), 1 - x.e)
                d == IF BigCmp(l, r) >= 0 THEN BigSub(l, r) ELSE BigSub(r, l)
            IN  BigCmp(d, BigFromNat(q)) <= 0

\* C5: draw_uniform(n) advances the state n times by
\* state' = (7^5 * state) mod (2^31 - 1) and returns n values, the i-th being
\* the i-th new state divided by 2^31 - 1; the state stays in 0..2^31-2 and
\* every value returned is in [0, 1).
C5_DrawUniform ==
    lcg.pc = "ready" =>
      /\ 0 <= lcg.state /\ lcg.state < LcgC
      /\ lcg.n >= 0 =>
            /\ Len(lcg.out) = lcg.n
            /\ lcg.state = Advance(lcg.before, lcg.n)
            /\ \A i \in 1..lcg.n :
                 /\ NearestDouble(lcg.out[i], Advance(lcg.before, i), LcgC)
                 /\ lcg.out[i].s >= 0
                 /\ DblLessNonNeg(lcg.out[i], DblOne)

C5_Witness ==
    /\ lcg.pc = "ready" /\ lcg.seed = 1337
    /\ lcg.draws = 2 /\ lcg.n = 2 /\ lcg.before # LCG(1337)

\* C10: state 0 is absorbing and is never reached from a non-zero state: from
\* a non-zero initial state (seed 1337 in particular) every state stays in
\* 1..2^31-2 and every noise sample is strictly between 0 and 1; from the
\* initial state 0 every state and every noise sample is 0.
C10_ZeroAbsorbing ==
    /\ [](lcg.pc = "noise" =>
            /\ lcg.init # 0 =>
                  /\ 0 < lcg.state /\ lcg.state < LcgC
                  /\ lcg.i > 0 => /\ DblLessNonNeg(DblZero, lcg.sample)
                                  /\ DblLessNonNeg(lcg.sample, DblOne)
            /\ lcg.init = 0 =>
                  /\ lcg.state = 0
                  /\ lcg.i > 0 => lcg.sample = DblZero)
    /\ [][lcg.pc = "noise" /\ lcg.state = 0 => lcg'.state = 0]_vars
    /\ [][lcg.pc = "noise" /\ lcg.state # 0 => lcg'.state # 0]_vars

C10_Witness ==
    /\ lcg.pc = "noise" /\ lcg.init = 0 /\ LCG(1337) # 0
    /\ lcg.i = rate /\ lcg.state = 0 /\ lcg.sample = DblZero

\* The block of 1920 samples of the waveform that starts at sample pos.
ExpectedBlock(pos) ==
    LET kind == <<"silence", "noise", "silence", "plusone", "silence",
                  "minusone", "silence", "plusone", "minusone", "silence">>[(pos \div 96000) + 1]
    IN  << [kind  |-> kind,
            first |-> IF kind = "noise" THEN pos % 96000 ELSE 0,
            count |-> 1920,
            bytes |-> IF kind = "silence" THEN <<0, 0, 0, 0>>
                      ELSE IF kind = "plusone" THEN <<127, 255, 255, 255>>
                      ELSE IF kind = "minusone" THEN <<128, 0, 0, 1>>
                      ELSE <<>>] >>

\* C6: every block handed to the sink has exactly 1920 samples; every block
\* written is the part of the 10-segment waveform that follows the blocks
\* written before it, wrapping around after the last block of a cycle; and
\* unless a write fails the loop keeps writing, cycle after cycle.
C6_Playback ==
    /\ [](gen.pc = "write" => BlockCount(gen.data) = 1920)
    /\ [][gen'.played # gen.played \/ gen'.block # gen.block =>
            /\ gen'.block = ExpectedBlock(gen.played)
            /\ gen'.played = (gen.played + 1920) % 960000]_vars
    /\ \/ <>(gen.pc = "failed")
       \/ /\ []<>(gen.played = 0 /\ gen.pc = "write")
          /\ []<>(gen.played = 960000 - 1920 /\ gen.pc = "write")

C6_Witness ==
    /\ gen.pc = "write" /\ gen.played = 0
    /\ gen.block = ExpectedBlock(960000 - 1920)
    /\ gen.data = ExpectedBlock(0)

(***************************************************************************)
(* Claims about the converter.                                             *)
(***************************************************************************)

\* C4: for a signal s of n samples, derive(s) has der[0] = 0 and
\* der[n-1] = 0, and der[i] = s[i+1] - s[i-1] for 1 <= i <= n-2, without any
\* division; [0,1,2,3,4] gives [0,2,2,2,0].
C4_Derive ==
    conv.pc = "der" =>
      LET n == Len(conv.ir)
      IN  /\ n >= 1 => conv.der[1] = DblZero /\ conv.der[n] = DblZero
          /\ \A i \in 2..(n - 1) : conv.der[i] = DblSub(conv.ir[i + 1], conv.ir[i - 1])
          /\ conv.ir = [k \in 1..5 |-> DblFromInt(k - 1)] =>
                conv.der = <<DblZero, DblFromInt(2), DblFromInt(2), DblFromInt(2), DblZero>>

C4_Witness ==
    /\ conv.pc = "der"
    /\ conv.ir = [k \in 1..5 |-> DblFromInt(k - 1)]
    /\ conv.der[2] = DblFromInt(2)

\* The recording gives a derivative that is zero everywhere: at most 2
\* samples, or s[i+1] = s[i-1] at every interior sample (a constant recording
\* among them).
ZeroDerivative(a) ==
    \/ Len(a) <= 2
    \/ \A i \in 2..(Len(a) - 1) : a[i + 1] = a[i - 1]

\* C8: the rescale is not guarded: when the signal that reaches it is zero
\* everywhere (as for the recordings above), peak is 0, scale = 1.0 / peak is a
\* division by zero that gives infinity, and every sample becomes 0 * inf =
\* NaN instead of staying 0; the conversion that follows is then undefined
\* rather than a well-defined all-zero output.
C8_UnguardedRescale ==
    conv.pc \in {"rescaled", "converted", "crashed", "done"} =>
      /\ ZeroDerivative(conv.samples) => conv.peak = DblZero
      /\ conv.peak = DblZero =>
            /\ conv.scale = DblInf(1)
            /\ conv.pc = "rescaled" =>
                  /\ Len(conv.ndata) > 0
                  /\ \A i \in 1..Len(conv.ndata) : IsNaN(conv.ndata[i])
            /\ conv.pc # "rescaled" => conv.ub
      /\ conv.pc = "crashed" => conv.peak = DblZero

C8_Witness ==
    /\ conv.pc = "crashed"
    /\ conv.samples = <<1, 1, 1>>
    /\ conv.peak = DblZero /\ conv.scale = DblInf(1) /\ conv.ub

\* C9: derive returns as many samples as it is given, for every length
\* including 0 and 1, so that data_length is the length of the input and the
\* output recording has as many samples as the input recording.
C9_CountPreserved ==
    /\ conv.pc \in {"derived", "processed", "bandlimited", "rescaled", "converted", "done"} =>
         /\ conv.data_length = Len(conv.samples)
         /\ Len(conv.ndata) = Len(conv.samples)
    /\ conv.pc = "done" => Len(conv.written) = Len(conv.frames)

\* What the code does instead: the derivative has 2 samples when the
\* recording has fewer than 2.
C9_TwoSamplesAtLeast ==
    conv.pc \in {"derived", "processed", "bandlimited", "rescaled", "converted", "done"} =>
      /\ conv.data_length = (IF Len(conv.samples) < 2 THEN 2 ELSE Len(conv.samples))
      /\ Len(conv.ndata) = conv.data_length

\* A recording of one sample, whose derivative has two.
C9_OneSample ==
    /\ conv.pc = "derived" /\ conv.samples = <<1>>
    /\ conv.data_length = 2 /\ conv.ndata = <<DblZero, DblZero>>

\* C7: bin i of a transform of length N at sample rate sr stands for the
\* signed frequency i*sr/N below N/2 and (i-N)*sr/N from there on, and it is
\* cleared exactly if that frequency is, in absolute value, strictly below
\* 20 Hz or strictly above 20000 Hz: bins at exactly 20 Hz or 20000 Hz are
\* kept, the bin of frequency 0 is cleared.
C7_BandEdges ==
    band.pc = "mask" /\ band.bin >= 0 =>
      LET k == IF 2 * band.bin < band.n THEN band.bin ELSE band.bin - band.n
      IN  /\ k = fftfreq_index(band.n, band.bin)
          /\ band.cleared <=> \/ Abs(k) * band.samplerate < 20 * band.n
                               \/ Abs(k) * band.samplerate > 20000 * band.n
          /\ band.bin = 0 => band.cleared

\* The bin of exactly 20000 Hz of a 66-sample derivative at 48000 Hz.
C7_EdgeCleared ==
    /\ band.pc = "mask" /\ band.samplerate = 48000 /\ band.n = 132
    /\ band.bin = 55 /\ band.cleared

====
